---- MODULE Spec2Model ----
(***************************************************************************)
(* State-machine model of cogs/voice.py (Voice cog): the connect,          *)
(* disconnect and say commands of one guild, run as cooperative tasks that *)
(* interleave at their await points, together with the playback thread of  *)
(* the guild's voice client.                                               *)
(*                                                                         *)
(* One step of a task is the code between two suspension points.  The      *)
(* voice client (ctx.voice_client) is one record per guild; the audio      *)
(* sources (TTSAudio) are named after the say invocation that constructed  *)
(* them, and a request is named after the say invocation that built it.    *)
(* The locals of a command (its context, audio, player) are dropped when   *)
(* the command ends; its kind, message and exception are kept.  chan[t] is *)
(* ctx.author.voice.channel as the command last read it; while the command *)
(* is suspended its invoker may change voice channel or leave voice, which *)
(* the command finds out when it reads the channel again (lines 53, 59 and *)
(* 95).  The checks of an invocation and the code of its body up to the    *)
(* first await are one step.                                               *)
(***************************************************************************)
EXTENDS Naturals, Integers, Sequences, FiniteSets, TLC

\* ---- bounds ----
NumTasks == 3
NumChannels == 2

\* capacity of a TTSAudio queue (submit_request raises when it is reached)
QueueCap == 2

Tasks == 1..NumTasks
Channels == 1..NumChannels

\* ctx.author.voice is None: the invoker is in no voice channel
NoChannel == 0

\* the value of ctx.voice_client when Blabber has no voice client (None)
Absent ==
    [present |-> FALSE, channel |-> 0, connected |-> FALSE,
     player |-> 0, playing |-> FALSE]

VARIABLES
    vc,         \* ctx.voice_client of the guild
    queue,      \* queue[s]: pending requests of the TTSAudio s
    created,    \* the TTSAudio objects constructed so far
    played,     \* requests handed to playback, in order
    pc,         \* pc[t]: where task t is suspended
    kind,       \* kind[t]: the command task t runs
    chan,       \* chan[t]: ctx.author.voice.channel of task t
    audio,      \* audio[t]: the local variable audio of say
    player,     \* player[t]: the local variable player of _connect
    out,        \* out[t]: the message the command sends
    err,        \* err[t]: the exception the command raised
    subs,       \* requests submitted while playing since the source was
                \* last cleared or stopped, in the order of the
                \* submit_request calls
    alone,      \* alone[t]: t is running and no other task has been in
                \* flight since it was invoked
    overlap,    \* two commands have been in flight at the same time
    undo        \* the requests that line 50 dropped for the move_to in
                \* flight of a command that runs alone

vars == <<vc, queue, created, played, pc, kind, chan, audio, player, out,
          err, subs, alone, overlap, undo>>

InFlight(t) == pc[t] \notin {"idle", "done"}

\* ---- discord.VoiceClient, as used by the cog ----

\* VoiceClient.is_playing(): a player exists and has not finished
is_playing(v) == v.present /\ v.player # 0 /\ v.playing

\* VoiceChannel.connect(): the new client is registered for the guild when
\* the call is made, and is connected once the handshake completes
NewClient(c) ==
    [present |-> TRUE, channel |-> c, connected |-> FALSE,
     player |-> 0, playing |-> FALSE]

\* the handshake of VoiceChannel.connect() has completed
Connected(v) == IF v.present THEN [v EXCEPT !.connected = TRUE] ELSE v

\* VoiceClient.move_to(channel) has completed
Moved(v, c) == IF v.present THEN [v EXCEPT !.channel = c] ELSE v

\* VoiceClient.play(source): a new player bound to source is started
play(v, a) == [v EXCEPT !.player = a, !.playing = TRUE]

\* VoiceClient.disconnect() stops the player and clears the connected flag
\* before it suspends
Stopped(v) == [v EXCEPT !.player = 0, !.playing = FALSE, !.connected = FALSE]

\* VoiceClient.disconnect() has completed: the guild has no voice client
Disconnected(v) == Absent

\* ---- blabber.audio.TTSAudio ----

\* TTSAudio.clear(): drops every pending request
clear(q, s) == [q EXCEPT ![s] = <<>>]

\* TTSAudio.submit_request raises when the queue is full
QueueFull(q, s) == Len(q[s]) >= QueueCap

\* TTSAudio.submit_request(request): the request goes to the back
submit_request(q, s, r) == [q EXCEPT ![s] = Append(@, r)]

\* ---- conditions of the cog ----

\* mutant of AlreadyInChannel: the comparison of the channels is inverted
AlreadyInChannel_Inverted(v, c) == v.present /\ c # v.channel

\* connect, line 91: Blabber is already in the invoker's voice channel
AlreadyInChannel(v, c) == v.present /\ c = v.channel

\* mutant of NeedsConnect: say always connects or moves first
NeedsConnect_Always(v, c) == TRUE

\* say, line 110: Blabber has to be connected or moved first
NeedsConnect(v, c) == ~v.present \/ c # v.channel

\* mutant of ClearBeforeMove: the source is cleared before the permission
\* check has passed
ClearBeforeMove_Unchecked(ok, v, q) ==
    IF v.player # 0 THEN [q EXCEPT ![v.player] = <<>>] ELSE q

\* _connect, lines 45-50: the queues once the permission check has passed
\* (ok) or raised: the queue of the player's source is cleared
ClearBeforeMove(ok, v, q) ==
    IF ok /\ v.player # 0 THEN clear(q, v.player) ELSE q

\* mutant of SourceFor: a new TTSAudio is constructed for every say
SourceFor_AlwaysNew(v, t) == t

\* say, lines 114-117: the source of the player, or a new TTSAudio
SourceFor(v, t) == IF v.player # 0 THEN v.player ELSE t

\* mutant of EnsurePlaying: the test of is_playing() is inverted
EnsurePlaying_Inverted(v, a) ==
    IF v.present /\ v.player # 0 /\ v.playing
    THEN [v EXCEPT !.player = a, !.playing = TRUE] ELSE v

\* mutant of EnsurePlaying: play is called without the test of is_playing()
EnsurePlaying_Always(v, a) == [v EXCEPT !.player = a, !.playing = TRUE]

\* say, lines 128-129: playback is started unless Blabber is playing
EnsurePlaying(v, a) == IF is_playing(v) THEN v ELSE play(v, a)

\* ---- steps of a task ----

\* the assignments of one step of task t, which runs command k for a member
\* of channel c: voice client v, queues q, sources cr, submissions sb, next
\* position p, local audio a, message u, exception e
Step(t, k, c, v, q, cr, sb, p, a, u, e) ==
    /\ vc' = v
    /\ queue' = q
    /\ created' = cr
    /\ subs' = sb
    /\ pc' = [pc EXCEPT ![t] = p]
    /\ kind' = [kind EXCEPT ![t] = k]
    /\ chan' = [chan EXCEPT ![t] = IF p = "done" THEN 0 ELSE c]
    /\ audio' = [audio EXCEPT ![t] = IF p = "done" THEN 0 ELSE a]
    /\ player' = [player EXCEPT ![t] = IF p = "move_to" THEN vc.player ELSE 0]
    /\ out' = [out EXCEPT ![t] = u]
    /\ err' = [err EXCEPT ![t] = e]
    /\ alone' = [w \in Tasks |->
                    IF w # t \/ p = "done" THEN FALSE
                    ELSE IF pc[t] = "idle"
                         THEN \A x \in Tasks \ {t} : ~InFlight(x)
                         ELSE alone[t]]
    /\ overlap' = (overlap \/
                   (pc[t] = "idle" /\ \E x \in Tasks \ {t} : InFlight(x)))
    /\ undo' = IF p = "move_to" /\ alone[t] /\ vc.player # 0
               THEN queue[vc.player] ELSE <<>>
    /\ UNCHANGED played

\* a step of a command that is already running
Go(t, v, q, cr, sb, p, a, u, e) ==
    Step(t, kind[t], chan[t], v, q, cr, sb, p, a, u, e)

\* mutant of Raise: the exception reaches no handler and nothing is sent
Raise_Unhandled(t, k, c, v, q, cr, sb, e) ==
    Step(t, k, c, v, q, cr, sb, "done", 0, "none", e)

\* mutant of Raise: the command that raised is acknowledged as a success
Raise_Acknowledged(t, k, c, v, q, cr, sb, e) ==
    Step(t, k, c, v, q, cr, sb, "done", 0,
         IF k = "say" THEN "Said" ELSE "Connected", e)

\* the command raises e: its local error handler sends the error
Raise(t, k, c, v, q, cr, sb, e) ==
    Step(t, k, c, v, q, cr, sb, "done", 0, "Error", e)

\* mutant of SayBody: the request stays in the queue although
\* submit_request raised
SayBody_KeepsRequest(t, k, c, v, q, sb) ==
    IF ~v.present
    THEN Raise(t, k, c, v, q, created, sb, "AttributeError")
    ELSE LET a == SourceFor(v, t)
             cr == created \cup {a}
         IN  IF QueueFull(q, a)
             THEN Raise(t, k, c, v, submit_request(q, a, t), cr, sb,
                        "QueueFull")
             ELSE Step(t, k, c, v, submit_request(q, a, t), cr,
                       IF is_playing(v) THEN Append(sb, t) ELSE sb,
                       "submit_request", a, out[t], err[t])

\* say, lines 113-125, run on voice client v and queues q up to the
\* suspension inside submit_request
SayBody(t, k, c, v, q, sb) ==
    IF ~v.present
    THEN Raise(t, k, c, v, q, created, sb, "AttributeError")
    ELSE LET a == SourceFor(v, t)
             cr == created \cup {a}
         IN  IF QueueFull(q, a)
             THEN Raise(t, k, c, v, q, cr, sb, "QueueFull")
             ELSE Step(t, k, c, v, submit_request(q, a, t), cr,
                       IF is_playing(v) THEN Append(sb, t) ELSE sb,
                       "submit_request", a, out[t], err[t])

\* the code that follows `await self._connect(ctx)`: line 95 of connect,
\* which reads ctx.author.voice.channel for its message and raises when the
\* invoker has left voice, and lines 113-125 of say
AfterConnect(t, v, q, sb, o) ==
    IF kind[t] = "connect"
    THEN \E left \in BOOLEAN :
            IF left
            THEN Raise(t, kind[t], chan[t], v, q, created, sb,
                       "AttributeError")
            ELSE Go(t, v, q, created, sb, "done", 0, o, err[t])
    ELSE SayBody(t, kind[t], chan[t], v, q, sb)

\* _connect, lines 43-44 and 56: the branch taken, up to the first check
EnterConnect(t, k, c) ==
    Step(t, k, c, vc, queue, created, subs,
         IF vc.present THEN "can_disconnect" ELSE "perms_connect",
         0, out[t], err[t])

\* commands are numbered in the order of their invocation
NextToInvoke(t) ==
    /\ pc[t] = "idle"
    /\ \A u \in Tasks : u < t => pc[u] # "idle"

\* the code only compares voice channels for equality, so channels are named
\* up to renaming.  The channel read at the invocation (lines 91, 110) is
\* compared with the voice client's channel and read again at line 53 or 59
\* before it is used: the invoker is in the voice client's channel or in the
\* first other channel
Usable(c) == vc.channel = c \/ \A d \in Channels : d < c => vc.channel = d

\* the channel that the running command t reads again at line 53 or 59 is a
\* channel in use (the voice client's, the target of another command's
\* move_to or connect, the channel of another say past line 111) or the
\* first channel not in use
InUseBeside(t, c) ==
    \/ vc.channel = c
    \/ \E u \in Tasks \ {t} :
          chan[u] = c /\ pc[u] \in {"move_to", "connect", "submit_request"}

Reusable(t, c) ==
    InUseBeside(t, c) \/ \A d \in Channels : d < c => InUseBeside(t, d)

\* the connect command is invoked (lines 81, 91-94): the check is_connected
\* (line 81) raises for a member who is in no voice channel, before the body;
\* otherwise the invoker is in channel c
ConnectCmd(t, c) ==
    /\ NextToInvoke(t)
    /\ Usable(c)
    /\ \E valid \in BOOLEAN :
        IF ~valid
        THEN Raise(t, "connect", c, vc, queue, created, subs, "CheckFailure")
        ELSE IF AlreadyInChannel(vc, c)
             THEN Step(t, "connect", c, vc, queue, created, subs, "done", 0,
                       "AlreadyPresent", err[t])
             ELSE EnterConnect(t, "connect", c)

\* the say command is invoked (lines 98-99, 110-125): the checks
\* is_connected (line 98) and tts_message_is_valid (line 99) pass or raise
\* before the body; otherwise the invoker is in channel c
SayCmd(t, c) ==
    /\ NextToInvoke(t)
    /\ Usable(c)
    /\ \E valid \in BOOLEAN :
        IF ~valid
        THEN Raise(t, "say", c, vc, queue, created, subs, "ValidationError")
        ELSE IF NeedsConnect(vc, c)
             THEN EnterConnect(t, "say", c)
             ELSE SayBody(t, "say", c, vc, queue, subs)

\* _connect, line 44: can_disconnect(ctx) passes or raises
CanDisconnect(t) ==
    /\ pc[t] = "can_disconnect"
    /\ \E ok \in BOOLEAN :
        IF ok
        THEN Go(t, vc, queue, created, subs, "perms_move", 0, out[t], err[t])
        ELSE Raise(t, kind[t], chan[t], vc, queue, created, subs,
                   "PermissionError")

\* _connect, lines 45-53: blabber_has_required_permissions(ctx) passes or
\* raises; the source is cleared (lines 48-50) and move_to is called with
\* the channel c that ctx.author.voice.channel has when line 53 reads it
\* again (the invoker may have changed channel since the invocation); when
\* the invoker has left voice, line 53 raises after the source was cleared
\* and before move_to is called
PermsMove(t) ==
    /\ pc[t] = "perms_move"
    /\ \E ok \in BOOLEAN :
        IF ~ok
        THEN Raise(t, kind[t], chan[t], vc, ClearBeforeMove(ok, vc, queue),
                   created, subs, "PermissionError")
        ELSE IF ~vc.present
             THEN Raise(t, kind[t], chan[t], vc, queue, created, subs,
                        "AttributeError")
             ELSE \E c \in Channels \cup {NoChannel} :
                    IF c = NoChannel
                    THEN Raise(t, kind[t], chan[t], vc,
                               ClearBeforeMove(ok, vc, queue), created,
                               <<>>, "AttributeError")
                    ELSE /\ Reusable(t, c)
                         /\ Step(t, kind[t], c, vc,
                                 ClearBeforeMove(ok, vc, queue), created,
                                 <<>>, "move_to", 0, out[t], err[t])

\* _connect, lines 53-54: move_to completes or fails
MoveTo(t) ==
    /\ pc[t] = "move_to"
    /\ \E ok \in BOOLEAN :
        IF ok
        THEN AfterConnect(t, Moved(vc, chan[t]), queue, subs, "Moved")
        ELSE Raise(t, kind[t], chan[t], vc, queue, created, subs,
                   "BackendError")

\* _connect, lines 56-59: blabber_has_required_permissions(ctx) passes or
\* raises; connect() is called on the channel c that
\* ctx.author.voice.channel has when line 59 reads it again, and raises when
\* the guild has a voice client; when the invoker has left voice, line 59
\* raises before connect() is called
PermsConnect(t) ==
    /\ pc[t] = "perms_connect"
    /\ \E ok \in BOOLEAN :
        IF ~ok
        THEN Raise(t, kind[t], chan[t], vc, queue, created, subs,
                   "PermissionError")
        ELSE \E left \in BOOLEAN :
               IF left
               THEN Raise(t, kind[t], chan[t], vc, queue, created, subs,
                          "AttributeError")
               ELSE IF vc.present
                    THEN Raise(t, kind[t], chan[t], vc, queue, created,
                               subs, "ClientException")
                    ELSE \E c \in Channels :
                           /\ Reusable(t, c)
                           /\ Step(t, kind[t], c, NewClient(c), queue,
                                   created, subs, "connect", 0, out[t],
                                   err[t])

\* _connect, lines 59-60: connect() completes or fails
Connect(t) ==
    /\ pc[t] = "connect"
    /\ \E ok \in BOOLEAN :
        IF ok
        THEN AfterConnect(t, Connected(vc), queue, subs, "Connected")
        ELSE Raise(t, kind[t], chan[t], Absent, queue, created, subs,
                   "BackendError")

\* say, lines 125-131: submit_request returns; playback is started unless
\* the voice client is playing (play raises on a client that is not
\* connected); the message gets its reaction
SayPlay(t) ==
    /\ pc[t] = "submit_request"
    /\ IF ~vc.present
       THEN Raise(t, kind[t], chan[t], vc, queue, created, subs,
                  "AttributeError")
       ELSE IF ~is_playing(vc) /\ ~vc.connected
            THEN Raise(t, kind[t], chan[t], vc, queue, created, subs,
                       "ClientException")
            ELSE Go(t, EnsurePlaying(vc, audio[t]), queue, created, subs,
                    "done", 0, "Said", err[t])

\* mutant of DisconnectCmd: the test of line 71 is skipped
DisconnectCmd_NoTest(t) ==
    /\ NextToInvoke(t)
    /\ Step(t, "disconnect", 0, vc, queue, created, subs,
            "dc_can_disconnect", 0, out[t], err[t])

\* the disconnect command is invoked (lines 71-74)
DisconnectCmd(t) ==
    /\ NextToInvoke(t)
    /\ IF ~vc.present
       THEN Step(t, "disconnect", 0, vc, queue, created, subs, "done", 0,
                 "NotConnected", err[t])
       ELSE Step(t, "disconnect", 0, vc, queue, created, subs,
                 "dc_can_disconnect", 0, out[t], err[t])

\* disconnect, lines 74-77: can_disconnect(ctx) passes or raises;
\* VoiceClient.disconnect() is called (it returns at once on a client that
\* is not connected)
DcCanDisconnect(t) ==
    /\ pc[t] = "dc_can_disconnect"
    /\ \E ok \in BOOLEAN :
        IF ~ok
        THEN Raise(t, kind[t], chan[t], vc, queue, created, subs,
                   "PermissionError")
        ELSE IF ~vc.present
             THEN Raise(t, kind[t], chan[t], vc, queue, created, subs,
                        "AttributeError")
             ELSE IF ~vc.connected
                  THEN Go(t, vc, queue, created, subs, "done", 0,
                          "Disconnected", err[t])
                  ELSE Go(t, Stopped(vc), queue, created, <<>>,
                          "disconnect", 0, out[t], err[t])

\* disconnect, lines 77-78: VoiceClient.disconnect() completes or fails
Disconnect(t) ==
    /\ pc[t] = "disconnect"
    /\ \E ok \in BOOLEAN :
        IF ok
        THEN Go(t, Disconnected(vc), queue, created, subs, "done", 0,
                "Disconnected", err[t])
        ELSE Raise(t, kind[t], chan[t], vc, queue, created, subs,
                   "BackendError")

\* ---- the playback thread of the voice client ----

\* the player reads the next request of its source
PlayerRead ==
    /\ is_playing(vc)
    /\ queue[vc.player] # <<>>
    /\ played' = Append(played, Head(queue[vc.player]))
    /\ queue' = [queue EXCEPT ![vc.player] = Tail(@)]
    /\ UNCHANGED <<vc, created, pc, kind, chan, audio, player, out, err,
                   subs, alone, overlap, undo>>

\* the player finds its source exhausted and finishes
PlayerEnd ==
    /\ is_playing(vc)
    /\ queue[vc.player] = <<>>
    /\ vc' = [vc EXCEPT !.playing = FALSE]
    /\ UNCHANGED <<queue, created, played, pc, kind, chan, audio, player,
                   out, err, subs, alone, overlap, undo>>

\* ---- the state after construction ----
Init ==
    /\ vc = Absent
    /\ queue = [s \in Tasks |-> <<>>]
    /\ created = {}
    /\ played = <<>>
    /\ pc = [t \in Tasks |-> "idle"]
    /\ kind = [t \in Tasks |-> "none"]
    /\ chan = [t \in Tasks |-> 0]
    /\ audio = [t \in Tasks |-> 0]
    /\ player = [t \in Tasks |-> 0]
    /\ out = [t \in Tasks |-> "none"]
    /\ err = [t \in Tasks |-> "none"]
    /\ subs = <<>>
    /\ alone = [t \in Tasks |-> FALSE]
    /\ overlap = FALSE
    /\ undo = <<>>

Next ==
    \/ \E t \in Tasks, c \in Channels : ConnectCmd(t, c)
    \/ \E t \in Tasks, c \in Channels : SayCmd(t, c)
    \/ \E t \in Tasks : DisconnectCmd(t)
    \/ \E t \in Tasks : CanDisconnect(t)
    \/ \E t \in Tasks : PermsMove(t)
    \/ \E t \in Tasks : MoveTo(t)
    \/ \E t \in Tasks : PermsConnect(t)
    \/ \E t \in Tasks : Connect(t)
    \/ \E t \in Tasks : SayPlay(t)
    \/ \E t \in Tasks : DcCanDisconnect(t)
    \/ \E t \in Tasks : Disconnect(t)
    \/ PlayerRead
    \/ PlayerEnd

Spec == Init /\ [][Next]_vars

\* the playback thread keeps reading its source while it plays
FairSpec == Spec /\ WF_vars(PlayerRead)

\* a step of the command t that is in flight
TaskStep(t) ==
    \/ CanDisconnect(t) \/ PermsMove(t) \/ MoveTo(t)
    \/ PermsConnect(t) \/ Connect(t) \/ SayPlay(t)
    \/ DcCanDisconnect(t) \/ Disconnect(t)

\* ---- properties ----

Range(f) == {f[i] : i \in 1..Len(f)}

OnlySays == \A t \in Tasks : kind[t] \in {"none", "say"}

\* task t is suspended inside _connect: at a permission check or at the
\* backend's connect or move_to
InConnect(t) ==
    pc[t] \in {"can_disconnect", "perms_move", "perms_connect", "connect",
               "move_to"}

\* C1: when only say commands have been invoked on the session that started
\* Absent, in any interleaving, at most one TTSAudio has been created, and
\* every pending request is in the source of the session's player or in the
\* source of a say that has yet to test is_playing().
C1_OneSourceForConcurrentSays ==
    OnlySays =>
        /\ Cardinality(created) <= 1
        /\ \A s \in created :
            queue[s] # <<>> =>
                \/ vc.present /\ vc.player = s
                \/ \E t \in Tasks : pc[t] = "submit_request" /\ audio[t] = s

\* C2: a move of a session with a player clears the queue of the source
\* before move_to is issued, and when the move completes the queue of the
\* player's source holds no request, in any interleaving.
C2_QueueEmptyWhenMoveCompletes ==
    [][\A t \in Tasks :
        /\ (pc[t] # "move_to" /\ pc'[t] = "move_to" /\ vc.player # 0
               => queue'[vc.player] = <<>>)
        /\ (pc[t] = "move_to" /\ pc'[t] # "move_to"
               /\ err'[t] # "BackendError"
               /\ player[t] # 0 /\ vc.present /\ vc.player = player[t]
               => queue[vc.player] = <<>>)]_vars

\* C3: the requests submitted while the session was playing, with no move or
\* disconnect since, are read by playback or wait in the queue of the
\* player's source in the order of their submit_request calls.
C3_PlayedInSubmissionOrder ==
    LET s == IF vc.present /\ vc.player # 0
             THEN played \o queue[vc.player] ELSE played
    IN  SelectSeq(s, LAMBDA r : r \in Range(subs)) = subs

\* C3 witness: two requests submitted while playing have both been played
C3_Witness ==
    /\ Len(subs) >= 2
    /\ Range(subs) \subseteq Range(played)

\* the step runs lines 114-125 or lines 128-129 of the say command t: it
\* reads the player or source of the session and submits its request (the
\* lookup may raise on an absent client, submit_request on a full queue), or
\* it tests is_playing() and starts playback
SayUsesSession(t) ==
    /\ kind'[t] = "say"
    /\ pc'[t] # pc[t]
    /\ \/ pc'[t] = "submit_request"
       \/ pc[t] = "submit_request"
       \/ /\ pc[t] \in {"idle", "move_to", "connect"}
          /\ err'[t] \in {"QueueFull", "AttributeError"}

\* C4: while a connect or move of the guild is in flight, no say of another
\* invocation reads the player or source, submits or starts playback.
C4_SayWaitsForConnect ==
    [][\A t \in Tasks :
        SayUsesSession(t) => ~\E u \in Tasks \ {t} : InConnect(u)]_vars

\* the session is connected to channel c, has no player and is not playing
ConnectedIdle(v, c) ==
    v = [present |-> TRUE, channel |-> c, connected |-> TRUE,
         player |-> 0, playing |-> FALSE]

\* the session is connected to channel c and plays source s
ConnectedPlaying(v, c, s) ==
    v = [present |-> TRUE, channel |-> c, connected |-> TRUE,
         player |-> s, playing |-> TRUE]

\* C5: a connect() that succeeds for a command that found the session Absent
\* and ran with no other command in flight leaves the session ConnectedIdle
\* on the invoker's voice channel, and the connect command reports
\* 'Connected'.
C5_ConnectFromAbsent ==
    [][\A t \in Tasks :
        pc[t] = "connect" /\ alone[t] /\ pc'[t] # "connect"
        /\ err'[t] # "BackendError"
        => /\ ConnectedIdle(vc', chan[t])
           /\ (kind[t] = "connect" =>
                  pc'[t] = "done" /\ out'[t] = "Connected")]_vars

\* C6: a connect command whose check passes and that is invoked while the
\* session exists on the invoker's voice channel ends at once with 'already
\* present': it is never suspended in _connect for the channel the session is
\* on, and the step in which it ends without an exception leaves the voice
\* client, the queues and the sources as they are.
C6_ConnectAlreadyPresent ==
    [][\A t \in Tasks :
        pc[t] = "idle" /\ kind'[t] = "connect" /\ vc.present
        /\ err'[t] = "none"
        /\ (chan'[t] = vc.channel \/ pc'[t] = "done")
        => /\ vc' = vc /\ queue' = queue /\ created' = created
           /\ pc'[t] = "done" /\ out'[t] = "AlreadyPresent"
           /\ err'[t] = "none"]_vars

\* C6 witness: 'already present' was reported while a request was pending
C6_Witness ==
    \E t \in Tasks :
        /\ out[t] = "AlreadyPresent"
        /\ vc.player # 0 /\ queue[vc.player] # <<>>

PermissionPcs == {"can_disconnect", "perms_move", "perms_connect"}

\* C7: a connect or say is suspended in a permission check of _connect only
\* by steps that leave the voice client, the queues and the sources
\* unchanged, and the step in which a check raises leaves them unchanged
\* too and ends the command with the permission error.
C7_PermissionFailureLeavesSession ==
    [][\A t \in Tasks :
        /\ (pc'[t] # pc[t] /\ pc'[t] \in PermissionPcs
               => /\ pc[t] \in {"idle", "can_disconnect"}
                  /\ vc' = vc /\ queue' = queue /\ created' = created)
        /\ (kind[t] \in {"connect", "say"} /\ err[t] = "none"
            /\ err'[t] = "PermissionError"
               => /\ pc[t] \in PermissionPcs
                  /\ vc' = vc /\ queue' = queue /\ created' = created
                  /\ pc'[t] = "done" /\ out'[t] = "Error")]_vars

\* C7 witness: after commands that succeeded one after the other, the last
\* command has failed a permission check of the move branch while the
\* player's source held a pending request
C7_Witness ==
    /\ ~overlap
    /\ \A u \in Tasks : u < NumTasks => pc[u] = "done" /\ err[u] = "none"
    /\ kind[NumTasks] \in {"connect", "say"}
    /\ err[NumTasks] = "PermissionError"
    /\ vc.player # 0 /\ queue[vc.player] # <<>>

\* C8: the step in which a disconnect command reports 'Successfully
\* disconnected' leaves the session Absent, playing or not; the connect()
\* that completes afterwards leaves the session connected with no player and
\* not playing; and the queue of a later player's source holds no request of
\* a say from before the disconnect (commands that do not overlap are
\* numbered in the order in which they ran).
C8_DisconnectReleases ==
    /\ [][\A t \in Tasks :
           kind[t] = "disconnect" /\ out[t] = "none"
           /\ out'[t] = "Disconnected"
           => vc' = Absent]_vars
    /\ [][\A t \in Tasks :
           pc[t] = "connect" /\ pc'[t] # "connect"
           /\ err'[t] # "BackendError"
           => vc'.present /\ vc'.player = 0 /\ ~vc'.playing]_vars
    /\ [](~overlap =>
           \A d \in Tasks :
               kind[d] = "disconnect" /\ out[d] = "Disconnected"
               /\ vc.present /\ vc.player # 0
               => \A r \in Range(queue[vc.player]) : r > d)

\* C9: a say that found the session Absent and runs with no other command in
\* flight, whose check and backend connect pass, goes through these steps in
\* this order: connect() is called for the invoker's channel and nothing
\* else changes; when it completes, a new TTSAudio is constructed and the
\* request submitted to it, with no player yet; then play is called with
\* that source and the message is acknowledged, the session being connected
\* on the invoker's channel and playing the source that holds the request.
C9_SayFromAbsent ==
    [][\A t \in Tasks :
        kind[t] = "say" /\ alone[t] /\ pc'[t] # pc[t] =>
        /\ (pc[t] = "perms_connect" /\ err'[t] = "none"
               => /\ pc'[t] = "connect"
                  /\ vc' = [present |-> TRUE, channel |-> chan'[t],
                            connected |-> FALSE, player |-> 0,
                            playing |-> FALSE]
                  /\ created' = created /\ queue' = queue)
        /\ (pc[t] = "connect" /\ err'[t] = "none"
               => /\ pc'[t] = "submit_request"
                  /\ ConnectedIdle(vc', chan[t])
                  /\ t \notin created /\ created' = created \cup {t}
                  /\ audio'[t] = t
                  /\ queue' = [queue EXCEPT ![t] = <<t>>])
        /\ (pc[t] = "submit_request" /\ audio[t] = t
            /\ ConnectedIdle(vc, chan[t])
               => /\ pc'[t] = "done" /\ out'[t] = "Said" /\ err'[t] = "none"
                  /\ ConnectedPlaying(vc', chan[t], t)
                  /\ queue'[t] = <<t>>
                  /\ created' = created)]_vars

\* C9 witness: the first command, a say, has been acknowledged
C9_Witness ==
    /\ kind[1] = "say" /\ out[1] = "Said"
    /\ pc[2] = "idle"
    /\ ConnectedPlaying(vc, 1, 1)
    /\ queue[1] = <<1>>

\* C10: a say invoked while the session plays on the invoker's channel
\* constructs no TTSAudio and puts its request at the back of the queue of the
\* player's source; it does not call play while the session is playing; a
\* request submitted while playing is played before any request submitted
\* after it, and is eventually played unless a move or disconnect intervenes.
C10_SayWhilePlaying ==
    /\ [][\A t \in Tasks :
           pc[t] = "idle" /\ kind'[t] = "say" /\ is_playing(vc)
           /\ vc.channel = chan'[t] /\ Len(queue[vc.player]) < QueueCap
           => /\ created' = created /\ vc' = vc
              /\ audio'[t] = vc.player
              /\ queue' = [queue EXCEPT ![vc.player] = Append(@, t)]
              /\ pc'[t] = "submit_request"]_vars
    /\ [][\A t \in Tasks :
           pc[t] = "submit_request" /\ pc'[t] # pc[t] /\ is_playing(vc)
           => vc' = vc /\ out'[t] = "Said" /\ err'[t] = "none"]_vars
    /\ [](\A i, j \in 1..Len(subs) :
           i < j /\ subs[j] \in Range(played) => subs[i] \in Range(played))
    /\ []<>(Range(subs) \subseteq Range(played))

\* C10 witness: two says found the session playing and were acknowledged,
\* and both requests have been played in order, with one TTSAudio
C10_Witness ==
    /\ Len(subs) = 2
    /\ Cardinality(created) = 1
    /\ \A t \in Range(subs) : out[t] = "Said"
    /\ \E i, j \in 1..Len(played) :
           i < j /\ played[i] = subs[1] /\ played[j] = subs[2]

\* the exceptions raised inside _connect by a permission check or by the
\* backend
ConnectErrors == {"PermissionError", "BackendError", "ClientException"}

\* C11: when a permission check or the backend call of _connect raises for a
\* say, that step ends the say with the error message and neither constructs
\* a TTSAudio, nor submits, nor calls play; the request of such a say is in
\* no queue and is never played, and the say is not acknowledged.
C11_ConnectFailureEndsSay ==
    /\ [][\A t \in Tasks :
           kind[t] = "say" /\ InConnect(t) /\ err'[t] \in ConnectErrors
           => /\ pc'[t] = "done" /\ out'[t] = "Error"
              /\ created' = created /\ queue' = queue
              /\ vc'.player = vc.player /\ vc'.playing = vc.playing]_vars
    /\ [](\A t \in Tasks :
           kind[t] = "say" /\ err[t] \in {"PermissionError", "BackendError"}
           => /\ out[t] = "Error" /\ pc[t] = "done"
              /\ t \notin created /\ t \notin Range(played)
              /\ \A s \in Tasks : t \notin Range(queue[s]))

\* C11 witness: a say whose move_to failed has ended, on a session that has
\* a player, and a say whose permission check failed has ended
C11_Witness ==
    \E t, u \in Tasks :
        /\ kind[t] = "say" /\ err[t] = "BackendError" /\ out[t] = "Error"
        /\ vc.present /\ vc.player # 0
        /\ kind[u] = "say" /\ err[u] = "PermissionError"

\* C12: the step in which submit_request raises for a full queue ends the say
\* with the error message, leaves every queue as it is, constructs no
\* TTSAudio and calls no play; the request of such a say is in no queue and
\* is never played, no queue exceeds its capacity, and the player of the
\* session always has a source.
C12_QueueFullEndsSay ==
    /\ [][\A t \in Tasks :
           err[t] = "none" /\ err'[t] = "QueueFull"
           => /\ kind'[t] = "say"
              /\ pc'[t] = "done" /\ out'[t] = "Error"
              /\ queue' = queue /\ created' = created
              /\ vc'.player = vc.player /\ vc'.playing = vc.playing]_vars
    /\ [](\A t \in Tasks :
           err[t] = "QueueFull"
           => /\ out[t] = "Error" /\ pc[t] = "done"
              /\ t \notin Range(played)
              /\ \A s \in Tasks : t \notin Range(queue[s]))
    /\ [](\A s \in Tasks : Len(queue[s]) <= QueueCap)
    /\ [](vc.present /\ vc.player # 0 => vc.player \in created)

\* C12 witness: a say has ended with the queue-full error while the session
\* plays a source whose queue is at capacity
C12_Witness ==
    \E t \in Tasks :
        /\ kind[t] = "say" /\ err[t] = "QueueFull" /\ out[t] = "Error"
        /\ is_playing(vc) /\ Len(queue[vc.player]) = QueueCap

\* C13: when the backend connect or move_to call of a command that runs with
\* no other command in flight fails, the session is as it was before the
\* command: Absent after a failed connect; after a failed move the channel
\* and the player are unchanged and the queue of the player's source holds
\* the requests it held before line 50.
C13_BackendFailureRollsBack ==
    [][\A t \in Tasks :
        alone[t] /\ err[t] = "none" /\ err'[t] = "BackendError"
        => /\ (pc[t] = "connect" => vc' = Absent)
           /\ (pc[t] = "move_to"
                  => /\ vc'.channel = vc.channel
                     /\ vc'.player = vc.player
                     /\ (player[t] # 0 => queue'[player[t]] = undo))]_vars

\* the TTSAudio s is in use: it is the source of the session's player or the
\* local audio of a say that is running
SourceInUse(s) ==
    \/ vc.present /\ vc.player = s
    \/ \E t \in Tasks : InFlight(t) /\ audio[t] = s

\* C14: in every reachable state, under any interleaving, the player of the
\* session has a source that was constructed, and when a TTSAudio in use
\* holds a pending request the guild has a voice client (the session is not
\* Absent).
C14_SessionInvariant ==
    /\ (vc.present /\ vc.player # 0 => vc.player \in created)
    /\ \A s \in created :
           queue[s] # <<>> /\ SourceInUse(s) => vc.present

\* C15: when the move_to of a command that runs with no other command in
\* flight completes, the session is on the invoker's channel and is not
\* playing; for a connect command the queue of the player's source is empty
\* and the command reports 'Moved'.
C15_MoveEndsConnectedIdle ==
    [][\A t \in Tasks :
        pc[t] = "move_to" /\ alone[t] /\ pc'[t] # "move_to"
        /\ err'[t] # "BackendError"
        => /\ vc'.channel = chan[t]
           /\ ~is_playing(vc')
           /\ (kind[t] = "connect"
                  => /\ pc'[t] = "done" /\ out'[t] = "Moved"
                     /\ (player[t] # 0 => queue'[player[t]] = <<>>))]_vars

\* the messages a command can send
Acknowledgements ==
    {"Connected", "Moved", "AlreadyPresent", "Said", "Disconnected",
     "NotConnected"}

\* the positions of a command in the order in which its code reaches them
Rank(p) ==
    CASE p = "idle" -> 0
      [] p \in {"can_disconnect", "perms_connect", "dc_can_disconnect"} -> 1
      [] p = "perms_move" -> 2
      [] p \in {"move_to", "connect", "disconnect"} -> 3
      [] p = "submit_request" -> 4
      [] p = "done" -> 5

\* C16: a command sends nothing while it runs and, as every awaited call
\* returns or raises, can always take its next step; every step moves it to
\* a later position of its code, so that every invocation ends; a command
\* that has ended has sent exactly one message, which is the error message
\* of its handler if and only if it raised, and otherwise its
\* acknowledgement, and sends nothing after it.
C16_OneOutcomePerInvocation ==
    /\ [](\A t \in Tasks :
           /\ (pc[t] = "idle" => out[t] = "none" /\ err[t] = "none")
           /\ (InFlight(t)
                  => out[t] = "none" /\ err[t] = "none" /\ ENABLED TaskStep(t))
           /\ (pc[t] = "done"
                  => /\ out[t] \in Acknowledgements \cup {"Error"}
                     /\ (out[t] = "Error") = (err[t] # "none")))
    /\ [][\A t \in Tasks :
           /\ (pc'[t] # pc[t] => Rank(pc'[t]) > Rank(pc[t]))
           /\ (pc[t] = "done"
                  => pc'[t] = "done" /\ out'[t] = out[t] /\ err'[t] = err[t])]_vars

\* C16 witness: one command each has ended on a permission error, on a
\* backend failure and on a session that became absent while it ran
C16_Witness ==
    \E t, u, w \in Tasks :
        /\ out[t] = "Error" /\ err[t] = "PermissionError"
        /\ out[u] = "Error" /\ err[u] = "BackendError"
        /\ out[w] = "Error" /\ err[w] = "AttributeError"

\* C17: a disconnect invoked while the guild has no voice client ends in the
\* same step with the 'not connected' message: it is never suspended in
\* can_disconnect or in the backend's disconnect, raises nothing, and the
\* session stays Absent with every queue and source as it was.
C17_DisconnectWhenAbsent ==
    [][\A t \in Tasks :
        pc[t] = "idle" /\ kind'[t] = "disconnect" /\ ~vc.present
        => /\ pc'[t] = "done" /\ out'[t] = "NotConnected"
           /\ err'[t] = "none"
           /\ vc = Absent /\ vc' = Absent
           /\ queue' = queue /\ created' = created]_vars

\* C17 witness: after a session was used and disconnected, a second
\* disconnect was told that Blabber is not connected
C17_Witness ==
    \E d, t \in Tasks :
        /\ d < t
        /\ kind[d] = "disconnect" /\ out[d] = "Disconnected"
        /\ kind[t] = "disconnect" /\ out[t] = "NotConnected"
        /\ vc = Absent

\* play is called in this step (line 129): a player is started or replaced,
\* or the call raises on a voice client that is not connected
PlayCalled ==
    \/ /\ vc'.present /\ vc'.playing
       /\ ~vc.playing \/ vc'.player # vc.player
    \/ \E t \in Tasks :
          /\ pc[t] = "submit_request" /\ pc'[t] = "done"
          /\ err'[t] = "ClientException"

\* C18: in any interleaving, a step that calls play starts from a voice
\* client that is not playing, and a say that returns from submit_request
\* while the voice client is playing leaves the player as it is.
C18_NoPlayWhilePlaying ==
    [][/\ PlayCalled => ~is_playing(vc)
       /\ \A t \in Tasks :
             pc[t] = "submit_request" /\ pc'[t] = "done" /\ is_playing(vc)
             => vc'.player = vc.player /\ vc'.playing]_vars

\* C18 witness: two says that ran at the same time have each constructed a
\* TTSAudio and both were acknowledged, and the session plays the source of
\* one of them
C18_Witness ==
    \E t, u \in Tasks :
        /\ t # u /\ overlap /\ OnlySays
        /\ out[t] = "Said" /\ out[u] = "Said"
        /\ created = {t, u}
        /\ is_playing(vc) /\ vc.player = t

\* C19: when one say runs together with disconnect commands only, in any
\* interleaving, the guild has a voice client whenever the say looks up the
\* source (line 114, after _connect has returned) and whenever it tests
\* is_playing() (line 128).
C19_SayFindsSession ==
    [][\A t \in Tasks :
        /\ kind[t] = "say"
        /\ \A u \in Tasks \ {t} : kind[u] \in {"none", "disconnect"}
        /\ pc[t] \in {"connect", "move_to", "submit_request"}
        /\ pc'[t] # pc[t] /\ err'[t] # "BackendError"
        => vc.present]_vars

\* C20: in any interleaving, when a say has submitted its request
\* (submit_request is called, line 125) the voice client is on the channel
\* of the say's invoker, and so it is when the say is acknowledged (line
\* 131).
C20_SayOnInvokersChannel ==
    [][\A t \in Tasks :
        /\ (pc[t] # "submit_request" /\ pc'[t] = "submit_request"
               => vc'.channel = chan'[t])
        /\ (pc[t] = "submit_request" /\ out'[t] = "Said"
               => vc'.channel = chan[t])]_vars
====
